---- MODULE Spec2Model ----
(***************************************************************************)
(* State-machine model of the voice recorder in src/src/main.rs:           *)
(* VoiceRecorder (control thread, one action per Message handled by        *)
(* update), the realtime input and output callbacks installed by           *)
(* start_recording_impl and play_file_impl, the completion channel and     *)
(* the working directory.                                                  *)
(*                                                                         *)
(* Conventions                                                             *)
(*   Option<T>      <<>> is None, <<x>> is Some(x)                         *)
(*   Instant        its age: the milliseconds elapsed since it was taken,  *)
(*                  MaxAge standing for MaxAge or more                     *)
(*   f32 sample     a rational <<n, d>> with d > 0 (f32 rounding ignored)  *)
(*   file name      [base |-> tuple, ext |-> string], the text base ++ ext *)
(*   status_message the format string of the message, arguments dropped    *)
(*   fs_op, out,    what the last message or callback handled did outside  *)
(*   queried        the recorder: the filesystem call made, the window     *)
(*                  written, the output configurations queried             *)
(*   sync           the mutexes' holders and the position of each thread   *)
(*                  inside its handler or callback (LockSpec only; the     *)
(*                  other specifications take a handler or a callback as   *)
(*                  one step and leave it idle)                            *)
(***************************************************************************)
EXTENDS Integers, Sequences, FiniteSets, TLC

(***************************************************************************)
(* Bounds of the model.                                                    *)
(***************************************************************************)
MaxCapture == 2
MaxSamples == 2
MaxWindow == 2
MaxSignals == 2
MaxPending == 2
MaxSteps == 1
MaxFiles == 1
MaxCfgs == 2
ConvGrid == 4
StepMs == 200

(***************************************************************************)
(* Program constants.                                                      *)
(***************************************************************************)
GraceMs == 200
PreferredRate == 48000
I16Max == 32767
U16Max == 65535
U8Silence == 128
U8Max == 255

None == <<>>
Some(x) == <<x>>
IsSome(o) == o # <<>>
Unwrap(o) == o[1]

\* Instant::now()
InstantNow == Some(0)
\* now.duration_since(t), now - t
Since(t) == Unwrap(t)
MaxAge == MaxSteps * StepMs

VARIABLES
    is_recording, playback_state, currently_playing_file, status_message,
    files, audio_data, input_stream, output_stream, playback_status,
    start_time, elapsed_time, stopping_time, recording_sample_rate,
    recording_channels, renaming_file, new_name, playback_samples,
    playback_position, is_stream_paused,
    pending_finalize, disk, fs_op, out, delivered, queried, sync

vars == <<is_recording, playback_state, currently_playing_file, status_message,
          files, audio_data, input_stream, output_stream, playback_status,
          start_time, elapsed_time, stopping_time, recording_sample_rate,
          recording_channels, renaming_file, new_name, playback_samples,
          playback_position, is_stream_paused,
          pending_finalize, disk, fs_op, out, delivered, queried, sync>>

\* the fields of VoiceRecorder and the completion channel
progVars == <<is_recording, playback_state, currently_playing_file, status_message,
              files, audio_data, input_stream, output_stream, playback_status,
              start_time, elapsed_time, stopping_time, recording_sample_rate,
              recording_channels, renaming_file, new_name, playback_samples,
              playback_position, is_stream_paused>>
recVars == <<is_recording, audio_data, input_stream, stopping_time,
             recording_sample_rate, recording_channels, delivered>>
playVars == <<playback_state, currently_playing_file, output_stream,
              playback_samples, playback_position, is_stream_paused>>
timeVars == <<start_time, elapsed_time>>
fileVars == <<files, disk, renaming_file, new_name>>

(***************************************************************************)
(* File names and the working directory.                                   *)
(***************************************************************************)
Wav == ".wav"
RecordingName(n) == [base |-> <<"recording_", n>>, ext |-> Wav]
UserName(s) == [base |-> <<s>>, ext |-> Wav]

\* name.to_lowercase().ends_with(".wav")
EndsWithWav(name) == name.ext = Wav

\* Position of a name in the lexicographic order of the strings modelled:
\* "a.wav" < "b.wav" < "recording_1.wav" < "recording_2.wav" < ...
NameRank(name) ==
    IF Len(name.base) = 2 THEN 2 + name.base[2]
    ELSE IF name.base = <<"a">> THEN 1
    ELSE IF name.base = <<"b">> THEN 2
    ELSE 0

RECURSIVE SortNames(_)
SortNames(S) ==
    IF S = {} THEN <<>>
    ELSE LET m == CHOOSE x \in S : \A y \in S : NameRank(x) <= NameRank(y)
         IN <<m>> \o SortNames(S \ {m})

list_wav_files(d) == SortNames({n \in d : EndsWithWav(n)})

InitDisks == {{}, {RecordingName(1)}}

\* the text of the rename input: base ++ ext; <<" ">> is a text of white space only
EmptyText == [base |-> <<>>, ext |-> ""]
BlankText == [base |-> <<" ">>, ext |-> ""]
TypedTexts == {BlankText, [base |-> <<"a">>, ext |-> ""]}

\* str::trim
Trim(t) == IF t = BlankText THEN EmptyText ELSE t

\* filename.strip_suffix(".wav").unwrap_or(filename)
StripWav(name) == IF name.ext = Wav THEN [base |-> name.base, ext |-> ""] ELSE name

\* the names the messages of a run carry: the rows of the file list, lines 876-926
FileNames == {files[i] : i \in 1..Len(files)}

(***************************************************************************)
(* Sample conversion (the closures of the input and output callbacks).     *)
(***************************************************************************)
GoldenNum == 61803
GoldenDen == 100000

\* f32-to-integer `as` cast of the rational a / b (b > 0): truncation toward zero
TruncDiv(a, b) == IF a >= 0 THEN a \div b ELSE -((-a) \div b)

\* f32::clamp(-1.0, 1.0)
Clamp(x) ==
    IF x[1] > x[2] THEN <<1, 1>>
    ELSE IF x[1] < -x[2] THEN <<-1, 1>>
    ELSE x

\* input closures, lines 193-196, 206-209, 220-226
ToCanonical(s, format) ==
    CASE format = "F32" -> s
      [] format = "I16" -> <<s, I16Max>>
      [] format = "U16" -> <<2 * s - U16Max, U16Max>>

\* the output closures with the 16-bit unsigned scaling missing its halving
FromCanonicalUnhalved(x, format, i) ==
    LET c == Clamp(x) IN
    CASE format = "F32" -> x
      [] format = "I16" -> TruncDiv(c[1] * I16Max, c[2])
      [] format = "U16" -> TruncDiv((c[1] + c[2]) * U16Max, c[2])
      [] format = "U8" ->
            LET dither == ((i * GoldenNum) % GoldenDen) * 2 - GoldenDen
                num == (c[1] + c[2]) * 255 * GoldenDen + dither * c[2]
                den == 2 * c[2] * GoldenDen
            IN IF num < 0 THEN 0
               ELSE IF num > 255 * den THEN 255
               ELSE TruncDiv(num, den)

\* output closures, lines 558, 592-595, 627-632, 664-669; i is the index in the window
FromCanonical(x, format, i) ==
    LET c == Clamp(x) IN
    CASE format = "F32" -> x
      [] format = "I16" -> TruncDiv(c[1] * I16Max, c[2])
      [] format = "U16" -> TruncDiv((c[1] + c[2]) * U16Max, 2 * c[2])
      [] format = "U8" ->
            LET dither == ((i * GoldenNum) % GoldenDen) * 2 - GoldenDen
                num == (c[1] + c[2]) * 255 * GoldenDen + dither * c[2]
                den == 2 * c[2] * GoldenDen
            IN IF num < 0 THEN 0
               ELSE IF num > 255 * den THEN 255
               ELSE TruncDiv(num, den)

\* every format filled with zero
SilenceZero(format) == IF format = "F32" THEN <<0, 1>> ELSE 0

\* out.fill(..) values, lines 549, 584, 619, 656
Silence(format) ==
    CASE format = "F32" -> <<0, 1>>
      [] format = "I16" -> 0
      [] format = "U16" -> U16Max \div 2
      [] format = "U8" -> U8Silence

(***************************************************************************)
(* Inputs: devices, raw capture blocks, file contents.                     *)
(***************************************************************************)
InDev(present, config_ok, format, channels, rate, build_ok, play_ok) ==
    [present |-> present, config_ok |-> config_ok, format |-> format,
     channels |-> channels, rate |-> rate, build_ok |-> build_ok,
     play_ok |-> play_ok]

NoInputDevice == InDev(FALSE, FALSE, "F32", 1, 48000, FALSE, FALSE)

InputDevices ==
    { NoInputDevice,
      InDev(TRUE, FALSE, "F32", 1, 48000, FALSE, FALSE),
      InDev(TRUE, TRUE, "I32", 2, 44100, FALSE, FALSE),
      InDev(TRUE, TRUE, "F32", 2, 44100, FALSE, FALSE),
      InDev(TRUE, TRUE, "F32", 2, 44100, TRUE, FALSE),
      InDev(TRUE, TRUE, "F32", 1, 48000, TRUE, TRUE),
      InDev(TRUE, TRUE, "I16", 2, 44100, TRUE, TRUE),
      InDev(TRUE, TRUE, "U16", 1, 48000, TRUE, TRUE) }

RawSamples(format) ==
    CASE format = "F32" -> {<<1, 2>>, <<-1, 1>>}
      [] format = "I16" -> {I16Max, -16384}
      [] format = "U16" -> {0, U16Max}

\* the blocks a callback may be handed
RawBlocks(format) ==
    {<<s>> : s \in RawSamples(format)}

RECURSIVE Gcd(_, _)
Gcd(a, b) == IF b = 0 THEN a ELSE Gcd(b, a % b)

\* the rational n / d in lowest terms (the same f32 value)
Norm(n, d) ==
    LET g == Gcd(IF n < 0 THEN -n ELSE n, d)
    IN <<n \div g, d \div g>>

\* i32::MAX as f32 is 2^31; the raw 32-bit samples modelled are multiples of 2^16
I32Unit == 65536
I32MaxF32Units == 32768

\* play_file_impl's conversion of the samples read, lines 374-416
FileToCanonical(s, format, bits) ==
    IF format = "Float" THEN s
    ELSE IF bits = 16 THEN Norm(s, I16Max)
    ELSE Norm(s \div I32Unit, I32MaxF32Units)

\* i-th float sample of a file: i / MaxSamples with alternating sign
PoolSample(i) == <<IF i % 2 = 0 THEN i ELSE -i, MaxSamples>>
\* i-th 16-bit sample of a file: -1, 0, -1, ...
PoolI16(i) == IF i % 2 = 1 THEN -I16Max ELSE 0
\* i-th 32-bit sample of a file: -1, 0, -1, ...
PoolI32(i) == IF i % 2 = 1 THEN -(I32Unit * (I32MaxF32Units - 1)) - I32Unit ELSE 0

WavFile(open_ok, format, bits, channels, rate, data, read_ok) ==
    [open_ok |-> open_ok, format |-> format, bits |-> bits,
     channels |-> channels, rate |-> rate, data |-> data, read_ok |-> read_ok]

\* what WavReader::open may find under a name
WavFiles ==
    { WavFile(FALSE, "Float", 32, 1, 48000, <<>>, FALSE),
      WavFile(TRUE, "Float", 32, 1, 48000, <<>>, FALSE),
      WavFile(TRUE, "Int", 16, 1, 48000, <<>>, FALSE),
      WavFile(TRUE, "Int", 32, 1, 48000, <<>>, FALSE),
      WavFile(TRUE, "Int", 24, 1, 48000, <<>>, TRUE),
      WavFile(TRUE, "Float", 32, 1, 48000, <<>>, TRUE),
      WavFile(TRUE, "Float", 32, 1, 48000, [i \in 1..MaxSamples |-> PoolSample(i)], TRUE),
      WavFile(TRUE, "Int", 16, 2, 44100, [i \in 1..MaxSamples |-> PoolI16(i)], TRUE),
      WavFile(TRUE, "Int", 32, 2, 44100, [i \in 1..MaxSamples |-> PoolI32(i)], TRUE) }

\* whether play_file_impl gets as far as looking for the output device, lines 359-428
Loads(file) ==
    /\ file.open_ok
    /\ file.format = "Int" => file.bits \in {16, 32}
    /\ file.read_ok
    /\ file.data # <<>>

OutCfg(channels, min, max, format) ==
    [channels |-> channels, min |-> min, max |-> max, format |-> format]

OutDev(present, query_ok, cfgs, build_ok, play_ok) ==
    [present |-> present, query_ok |-> query_ok, cfgs |-> cfgs,
     build_ok |-> build_ok, play_ok |-> play_ok]

NoOutputDevice == OutDev(FALSE, FALSE, <<>>, FALSE, FALSE)

OutputDevices ==
    { NoOutputDevice,
      OutDev(TRUE, FALSE, <<>>, FALSE, FALSE),
      OutDev(TRUE, TRUE, <<>>, FALSE, FALSE),
      OutDev(TRUE, TRUE, <<OutCfg(1, 44100, 48000, "F32")>>, FALSE, FALSE),
      OutDev(TRUE, TRUE, <<OutCfg(1, 44100, 48000, "F32")>>, TRUE, FALSE),
      OutDev(TRUE, TRUE, <<OutCfg(1, 8000, 48000, "U8"),
                           OutCfg(1, 44100, 48000, "F32"),
                           OutCfg(2, 44100, 48000, "I16")>>, TRUE, TRUE),
      OutDev(TRUE, TRUE, <<OutCfg(2, 48000, 48000, "U16"),
                           OutCfg(2, 8000, 44100, "U8")>>, TRUE, TRUE),
      OutDev(TRUE, TRUE, <<OutCfg(1, 8000, 22050, "U8")>>, TRUE, TRUE),
      OutDev(TRUE, TRUE, <<OutCfg(2, 44100, 48000, "U16"),
                           OutCfg(2, 44100, 48000, "I32")>>, TRUE, TRUE) }

\* the sample formats a device may advertise: "F64" stands for the formats
\* play_file_impl's ranking does not name, line 480
CfgFormats == {"F32", "I16", "I32", "U16", "U8", "F64"}

\* the configurations a device may advertise: every format with one channel
\* and a range up to 48000 Hz, F32 with one channel and two other ranges, and
\* F32 and U8 with two channels, F32 also with a range above 44100 Hz
AdvertisedCfgs ==
    {OutCfg(1, 8000, 48000, f) : f \in CfgFormats}
      \cup {OutCfg(1, 8000, 44100, "F32"), OutCfg(1, 44100, 48000, "F32"),
            OutCfg(2, 8000, 48000, "F32"), OutCfg(2, 8000, 48000, "U8"),
            OutCfg(2, 48000, 96000, "F32")}

\* the output devices that answer the query with at most MaxCfgs configurations,
\* in any order, and build and start any stream
AdvertisingDevices ==
    {OutDev(TRUE, TRUE, cfgs, TRUE, TRUE) :
       cfgs \in UNION {[1..n -> AdvertisedCfgs] : n \in 0..MaxCfgs}}

\* the files play_file_impl reads to the end
LoadedWavFiles == {file \in WavFiles : Loads(file)}

\* one working input device, one readable file and one working output device
OneInputDevice == {InDev(TRUE, TRUE, "F32", 1, 48000, TRUE, TRUE)}
OneWavFile ==
    {WavFile(TRUE, "Float", 32, 1, 48000, [i \in 1..MaxSamples |-> PoolSample(i)], TRUE)}
OneOutputDevice ==
    {OutDev(TRUE, TRUE, <<OutCfg(1, 44100, 48000, "F32")>>, TRUE, TRUE)}

\* the same, each of which may also be missing
CoreInputDevices == OneInputDevice \cup {NoInputDevice}
CoreWavFiles == OneWavFile \cup {WavFile(FALSE, "Float", 32, 1, 48000, <<>>, FALSE)}
CoreOutputDevices == OneOutputDevice \cup {NoOutputDevice}

(***************************************************************************)
(* Initial state: VoiceRecorder::default().                                *)
(***************************************************************************)
NoFsOp == [op |-> "none"]

\* the four mutexes: audio_data (line 90), playback_samples, playback_position
\* and is_stream_paused (lines 103-105)
Mutexes == {"audio_data", "playback_samples", "playback_position", "is_stream_paused"}

\* no mutex held, the control thread between two messages, no callback running
SyncIdle ==
    [mutex |-> [m \in Mutexes |-> "free"], control |-> <<>>,
     output |-> "idle", input |-> "idle"]

\* VoiceRecorder::default() in a working directory that is one of dirs
InitIn(dirs) ==
    /\ is_recording = FALSE
    /\ playback_state = "Stopped"
    /\ currently_playing_file = None
    /\ status_message = "Ready to record."
    /\ disk \in dirs
    /\ files = list_wav_files(disk)
    /\ audio_data = <<>>
    /\ input_stream = None
    /\ output_stream = None
    /\ playback_status = 0
    /\ start_time = None
    /\ elapsed_time = 0
    /\ stopping_time = None
    /\ recording_sample_rate = 48000
    /\ recording_channels = 1
    /\ renaming_file = None
    /\ new_name = EmptyText
    /\ playback_samples = <<>>
    /\ playback_position = 0
    /\ is_stream_paused = FALSE
    /\ pending_finalize = 0
    /\ fs_op = NoFsOp
    /\ out = <<>>
    /\ queried = None
    /\ delivered = <<>>
    /\ sync = SyncIdle

Init == InitIn(InitDisks)

(***************************************************************************)
(* Recording.                                                              *)
(***************************************************************************)
\* the guard of start_recording_impl, line 138 (negated)
CanStartRecording == ~is_recording /\ playback_state = "Stopped"

\* a capture configuration that asks for the preferred rate on every device
InputConfigRatePreferred(default_rate) == PreferredRate

\* lines 161-176
InputConfigRate(default_rate) ==
    IF default_rate <= PreferredRate /\ PreferredRate <= default_rate
    THEN PreferredRate
    ELSE default_rate

\* a start that ignores the result of stream.play()
InputStreamStartedMut(dev) == TRUE

\* whether stream.play() succeeds on the input stream just built, line 241
InputStreamStarted(dev) == dev.play_ok

\* start_recording_impl past the guard and the clearing of the buffer, lines 143-255
start_recording_opened(dev) ==
    IF ~dev.present
    THEN /\ status_message' = "No input device found."
         /\ UNCHANGED <<is_recording, input_stream, stopping_time, delivered,
                        recording_sample_rate, recording_channels, timeVars>>
    ELSE IF ~dev.config_ok
    THEN /\ status_message' = "Failed to get default input config: {}"
         /\ UNCHANGED <<is_recording, input_stream, stopping_time, delivered,
                        recording_sample_rate, recording_channels, timeVars>>
    ELSE
      /\ recording_sample_rate' = InputConfigRate(dev.rate)
      /\ recording_channels' = dev.channels
      /\ IF dev.format \notin {"F32", "I16", "U16"}
         THEN /\ status_message' = "Unsupported input sample format"
              /\ UNCHANGED <<is_recording, input_stream, stopping_time,
                             delivered, timeVars>>
         ELSE IF ~dev.build_ok
         THEN /\ status_message' = "Failed to build input stream: {}"
              /\ UNCHANGED <<is_recording, input_stream, stopping_time,
                             delivered, timeVars>>
         ELSE IF ~InputStreamStarted(dev)
         THEN /\ status_message' = "Failed to start input stream: {}"
              /\ UNCHANGED <<is_recording, input_stream, stopping_time,
                             delivered, timeVars>>
         ELSE /\ input_stream' = Some([format |-> dev.format,
                                       channels |-> dev.channels,
                                       sample_rate |-> InputConfigRate(dev.rate)])
              /\ is_recording' = TRUE
              /\ status_message' = "Recording..."
              /\ start_time' = InstantNow
              /\ elapsed_time' = 0
              /\ stopping_time' = None
              /\ delivered' = <<>>

\* start_recording_impl with the input device it finds; leaves fs_op to the caller
start_recording_impl(dev) ==
    IF ~CanStartRecording
    THEN UNCHANGED <<recVars, status_message, timeVars>>
    ELSE /\ audio_data' = <<>>
         /\ start_recording_opened(dev)

\* the working directory holds at most MaxFiles files: a write that would add
\* one more fails
HasRoom == Cardinality(disk \cup {RecordingName(Len(files) + 1)}) <= MaxFiles

\* a stop that does not test is_recording first
stop_recording_unguarded ==
    /\ is_recording' = FALSE
    /\ start_time' = None
    /\ stopping_time' = InstantNow
    /\ status_message' = "Stopping recording..."
    /\ UNCHANGED <<audio_data, input_stream, recording_sample_rate,
                   recording_channels, delivered, elapsed_time>>

\* stop_recording_impl, lines 258-267
stop_recording_impl ==
    IF ~is_recording
    THEN UNCHANGED <<recVars, status_message, timeVars>>
    ELSE /\ is_recording' = FALSE
         /\ start_time' = None
         /\ stopping_time' = InstantNow
         /\ status_message' = "Stopping recording..."
         /\ UNCHANGED <<audio_data, input_stream, recording_sample_rate,
                        recording_channels, delivered, elapsed_time>>

\* a finalize that does not look at what was captured
NothingCapturedMut(samples) == FALSE

\* the test finalize_recording makes before it writes, line 276
NothingCaptured(samples) == samples = <<>>

\* finalize_recording, lines 269-302; write_ok is whether write_wav_file_f32 succeeds
finalize_recording(write_ok) ==
    LET filename == RecordingName(Len(files) + 1)
        samples == audio_data
    IN /\ input_stream' = None
       /\ stopping_time' = None
       /\ audio_data' = <<>>
       /\ delivered' = <<>>
       /\ UNCHANGED <<is_recording, recording_sample_rate, recording_channels,
                      timeVars, renaming_file, new_name>>
       /\ IF NothingCaptured(samples)
          THEN /\ status_message' = "Error saving file: No audio data captured"
               /\ fs_op' = NoFsOp
               /\ UNCHANGED <<files, disk>>
          ELSE /\ fs_op' = [op |-> "write", name |-> filename,
                            channels |-> recording_channels,
                            sample_rate |-> recording_sample_rate,
                            bits_per_sample |-> 32, sample_format |-> "Float",
                            samples |-> samples, ok |-> write_ok]
               /\ IF write_ok
                  THEN /\ status_message' = "Recording saved as '{}'"
                       /\ disk' = disk \cup {filename}
                       /\ files' = list_wav_files(disk')
                  ELSE /\ status_message' = "Error saving file: {}"
                       /\ UNCHANGED <<files, disk>>

\* the body of the input closures, lines 193-196, 206-209, 220-226
input_callback ==
    \E block \in RawBlocks(Unwrap(input_stream).format) :
      LET data == [i \in 1..Len(block) |->
                     ToCanonical(block[i], Unwrap(input_stream).format)]
      IN /\ Len(audio_data) + Len(data) <= MaxCapture
         /\ Len(delivered) + Len(data) <= MaxCapture
         /\ audio_data' = audio_data \o data
         /\ delivered' = delivered \o data

\* the realtime input callback of the open input stream
InputCallback ==
    /\ IsSome(input_stream)
    /\ input_callback
    /\ UNCHANGED <<is_recording, input_stream, stopping_time, recording_sample_rate,
                   recording_channels, status_message, timeVars, playVars, fileVars,
                   playback_status, pending_finalize, fs_op, out, queried, sync>>

(***************************************************************************)
(* Playback.                                                               *)
(***************************************************************************)
\* a guard that looks at the playback state only
CanPlayMut == playback_state = "Stopped"

\* the guard of play_file_impl, line 353 (negated)
CanPlay == playback_state = "Stopped" /\ ~is_recording

\* lines 474-481
format_priority(format) ==
    CASE format = "F32" -> 0
      [] format = "I16" -> 1
      [] format = "I32" -> 2
      [] format = "U16" -> 3
      [] format = "U8" -> 100
      [] OTHER -> 50

Abs(x) == IF x < 0 THEN -x ELSE x

\* a distance taken from the lower end of the range
rate_diff_from_min(c, rate) == Abs(c.min - rate)

\* line 482
rate_diff(c, rate) == Abs(c.max - rate)

\* the tuple order of min_by_key's keys, line 483
KeyLess(c1, c2, rate) ==
    \/ format_priority(c1.format) < format_priority(c2.format)
    \/ /\ format_priority(c1.format) = format_priority(c2.format)
       /\ rate_diff(c1, rate) < rate_diff(c2, rate)

\* lines 470-484: filter by channel count, min_by_key returns the first minimum
matched(cfgs, channels, rate) ==
    LET cand == {i \in 1..Len(cfgs) : cfgs[i].channels = channels}
        best == {i \in cand : \A j \in cand : ~KeyLess(cfgs[j], cfgs[i], rate)}
    IN IF cand = {} THEN None
       ELSE Some(cfgs[CHOOSE i \in best : \A j \in best : i <= j])

\* the rate clamped into [min, max] on both sides
chosen_clamped(cfgs, channels, rate) ==
    LET m == matched(cfgs, channels, rate) IN
    IF IsSome(m)
    THEN LET c == Unwrap(m) IN
         Some([format |-> c.format, channels |-> c.channels,
               sample_rate |-> IF rate < c.min THEN c.min
                               ELSE IF rate > c.max THEN c.max ELSE rate,
               fallback |-> FALSE])
    ELSE IF cfgs # <<>>
    THEN Some([format |-> cfgs[1].format, channels |-> cfgs[1].channels,
               sample_rate |-> cfgs[1].max, fallback |-> TRUE])
    ELSE None

\* lines 486-518: the configuration and rate the stream is built with, None when
\* the device offers nothing; fallback tells that the channel filter matched nothing
chosen(cfgs, channels, rate) ==
    LET m == matched(cfgs, channels, rate) IN
    IF IsSome(m)
    THEN LET c == Unwrap(m) IN
         Some([format |-> c.format, channels |-> c.channels,
               sample_rate |-> IF rate >= c.min /\ rate <= c.max THEN rate ELSE c.max,
               fallback |-> FALSE])
    ELSE IF cfgs # <<>>
    THEN Some([format |-> cfgs[1].format, channels |-> cfgs[1].channels,
               sample_rate |-> cfgs[1].max, fallback |-> TRUE])
    ELSE None

\* the status after negotiation, lines 505-509 and 528-534
NegotiationStatus(ch, rate) ==
    IF rate # ch.sample_rate THEN "Sample rate mismatch: file={}Hz, device={}Hz"
    ELSE IF ch.fallback THEN "Using fallback config (channels: {} -> {})"
    ELSE status_message

\* a stop that leaves the paused flag of the callbacks as it is
stop_playback_keeping_flag ==
    /\ output_stream' = None
    /\ playback_state' = "Stopped"
    /\ currently_playing_file' = None
    /\ start_time' = None
    /\ elapsed_time' = 0
    /\ playback_position' = 0
    /\ UNCHANGED <<playback_samples, is_stream_paused>>

\* stop_playback_impl, lines 736-747, leaving the status to the caller
stop_playback_effect ==
    /\ output_stream' = None
    /\ playback_state' = "Stopped"
    /\ currently_playing_file' = None
    /\ start_time' = None
    /\ elapsed_time' = 0
    /\ is_stream_paused' = FALSE
    /\ playback_position' = 0
    /\ UNCHANGED playback_samples

stop_playback_impl ==
    IF playback_state # "Stopped"
    THEN /\ stop_playback_effect
         /\ status_message' = "Playback stopped."
    ELSE UNCHANGED <<playVars, timeVars, status_message>>

\* lines 381, 397, 412
ReadErrorStatus(file) ==
    IF file.format = "Float" THEN "Error reading float samples: {}"
    ELSE IF file.bits = 16 THEN "Error reading i16 samples: {}"
    ELSE "Error reading i32 samples: {}"

\* play_file_impl, lines 352-708, with what the file holds and the output device found
play_file_impl(filename, file, dev) ==
    IF ~CanPlay
    THEN UNCHANGED <<playVars, timeVars, status_message>>
    ELSE LET samples == [i \in 1..Len(file.data) |->
                           FileToCanonical(file.data[i], file.format, file.bits)]
             fail(msg) == /\ status_message' = msg
                          /\ UNCHANGED <<playback_state, currently_playing_file,
                                         output_stream, timeVars>>
         IN
         IF ~file.open_ok
         THEN fail("Error opening file: {}")
              /\ UNCHANGED <<playback_samples, playback_position, is_stream_paused>>
         ELSE IF file.format = "Int" /\ file.bits \notin {16, 32}
         THEN fail("Unsupported bit depth: {}")
              /\ UNCHANGED <<playback_samples, playback_position, is_stream_paused>>
         ELSE IF ~file.read_ok
         THEN fail(ReadErrorStatus(file))
              /\ UNCHANGED <<playback_samples, playback_position, is_stream_paused>>
         ELSE IF samples = <<>>
         THEN fail("File contains no samples.")
              /\ UNCHANGED <<playback_samples, playback_position, is_stream_paused>>
         ELSE
           /\ playback_samples' = samples
           /\ playback_position' = 0
           /\ is_stream_paused' = FALSE
           /\ IF ~dev.present
              THEN fail("Failed to find default output device")
              ELSE IF ~dev.query_ok
              THEN fail("Error querying output configs: {}")
              ELSE LET ch == chosen(dev.cfgs, file.channels, file.rate) IN
                IF ch = None
                THEN fail("No compatible output configuration found.")
                ELSE IF Unwrap(ch).format \notin {"F32", "I16", "U16", "U8"}
                THEN fail("Unsupported output sample format: {}")
                ELSE IF ~dev.build_ok
                THEN fail("Failed to build output stream: {}")
                ELSE IF ~dev.play_ok
                THEN fail("Failed to start output stream: {}")
                ELSE /\ output_stream' = Some([format |-> Unwrap(ch).format,
                                               channels |-> Unwrap(ch).channels,
                                               sample_rate |-> Unwrap(ch).sample_rate])
                     /\ playback_state' = "Playing"
                     /\ currently_playing_file' = Some(filename)
                     /\ status_message' = "Playing: {}"
                     /\ start_time' = InstantNow
                     /\ elapsed_time' = 0

\* pause_playback_impl, lines 710-721
pause_playback_impl ==
    IF playback_state = "Playing"
    THEN /\ is_stream_paused' = TRUE
         /\ playback_state' = "Paused"
         /\ status_message' = IF IsSome(currently_playing_file)
                              THEN "Paused: {}" ELSE "Playback paused."
         /\ start_time' = None
         /\ UNCHANGED <<currently_playing_file, output_stream, playback_samples,
                        playback_position, elapsed_time>>
    ELSE UNCHANGED <<playVars, timeVars, status_message>>

\* the instant resume_playback_impl stores in start_time, line 732
ResumeStart == InstantNow

\* resume_playback_impl, lines 723-734
resume_playback_impl ==
    IF playback_state = "Paused"
    THEN /\ is_stream_paused' = FALSE
         /\ playback_state' = "Playing"
         /\ status_message' = IF IsSome(currently_playing_file)
                              THEN "Playing: {}" ELSE "Playback resumed."
         /\ start_time' = ResumeStart
         /\ UNCHANGED <<currently_playing_file, output_stream, playback_samples,
                        playback_position, elapsed_time>>
    ELSE UNCHANGED <<playVars, timeVars, status_message>>

\* a callback that never reads the pause flag
CallbackPausedMut == FALSE

\* the flag the output callback reads first, lines 547, 582, 617, 654
CallbackPaused == is_stream_paused

\* whether the callback sends on the completion channel, lines 568, 602, 639, 676
CallbackSends(position, len) == position >= len

\* a window copied from the start of the buffer whatever the cursor
WindowIgnoringCursor(samples, position, len, w, format) ==
    [i \in 1..w |-> IF i <= len
                    THEN FromCanonical(samples[i], format, i - 1)
                    ELSE Silence(format)]

\* the window an unpaused callback writes, lines 553-566, 588-598, 623-635, 660-672
Window(samples, position, len, w, format) ==
    [i \in 1..w |-> IF i <= len
                    THEN FromCanonical(samples[position + i], format, i - 1)
                    ELSE Silence(format)]

\* a closure that advances the cursor by the size of the window it was given
output_callback_overrun(paused, w) ==
    LET format == Unwrap(output_stream).format IN
    IF paused
    THEN /\ out' = [i \in 1..w |-> Silence(format)]
         /\ UNCHANGED <<playback_position, playback_status>>
    ELSE LET remaining == Len(playback_samples) - playback_position
             len == IF w < remaining THEN w ELSE remaining
         IN /\ out' = Window(playback_samples, playback_position, len, w, format)
            /\ playback_position' = playback_position + w
            /\ IF CallbackSends(playback_position + w, Len(playback_samples))
               THEN /\ playback_status < MaxSignals
                    /\ playback_status' = playback_status + 1
               ELSE UNCHANGED playback_status

\* the body of the output closures for a window of w samples, lines 546-571,
\* 581-605, 616-642, 653-679; paused is the flag read at lines 547, 582, 617, 654
output_callback(paused, w) ==
    LET format == Unwrap(output_stream).format IN
    IF paused
    THEN /\ out' = [i \in 1..w |-> Silence(format)]
         /\ UNCHANGED <<playback_position, playback_status>>
    ELSE LET remaining == Len(playback_samples) - playback_position
             len == IF w < remaining THEN w ELSE remaining
         IN /\ out' = Window(playback_samples, playback_position, len, w, format)
            /\ playback_position' = playback_position + len
            /\ IF CallbackSends(playback_position + len, Len(playback_samples))
               THEN /\ playback_status < MaxSignals
                    /\ playback_status' = playback_status + 1
               ELSE UNCHANGED playback_status

\* the realtime output callback of the open output stream with a window of w samples
OutputCallback ==
    /\ IsSome(output_stream)
    /\ \E w \in 1..MaxWindow : output_callback(CallbackPaused, w)
    /\ UNCHANGED <<recVars, timeVars, fileVars, status_message, playback_state,
                   currently_playing_file, output_stream, playback_samples,
                   is_stream_paused, pending_finalize, fs_op, queried, sync>>

(***************************************************************************)
(* Rename and delete.                                                      *)
(***************************************************************************)
\* the guard of start_rename_impl, line 306 (negated)
CanStartRename == ~is_recording /\ playback_state = "Stopped"

\* the guard of delete_file_impl, lines 751-754 (negated)
CanDelete == ~is_recording /\ playback_state = "Stopped" /\ renaming_file = None

\* what confirm_rename_impl requires before it renames, line 316
CanConfirmRename == IsSome(renaming_file)

\* start_rename_impl, lines 304-313
start_rename_impl(filename) ==
    IF ~CanStartRename
    THEN UNCHANGED <<renaming_file, new_name>>
    ELSE /\ renaming_file' = Some(filename)
         /\ new_name' = StripWav(filename)

\* confirm_rename_impl, lines 315-344
confirm_rename_impl ==
    IF ~CanConfirmRename
    THEN /\ fs_op' = NoFsOp
         /\ UNCHANGED <<fileVars, status_message>>
    ELSE LET old_name == Unwrap(renaming_file)
             trimmed == Trim(new_name)
             new_filename == IF EndsWithWav(trimmed) THEN trimmed
                             ELSE [base |-> trimmed.base, ext |-> Wav]
         IN IF trimmed = EmptyText
            THEN /\ status_message' = "Filename cannot be empty."
                 /\ fs_op' = NoFsOp
                 /\ UNCHANGED fileVars
            ELSE IF new_filename # old_name /\ new_filename \in disk
            THEN /\ status_message' = "File with that name already exists."
                 /\ fs_op' = NoFsOp
                 /\ UNCHANGED fileVars
            ELSE /\ fs_op' = [op |-> "rename", name |-> old_name,
                              to |-> new_filename, ok |-> old_name \in disk]
                 /\ IF old_name \in disk
                    THEN /\ status_message' = "Renamed '{}' to '{}'"
                         /\ disk' = (disk \ {old_name}) \cup {new_filename}
                         /\ files' = list_wav_files(disk')
                         /\ renaming_file' = None
                         /\ new_name' = EmptyText
                    ELSE /\ status_message' = "Error renaming file: {}"
                         /\ UNCHANGED fileVars

\* cancel_rename_impl, lines 346-350
cancel_rename_impl ==
    /\ renaming_file' = None
    /\ new_name' = EmptyText
    /\ status_message' = "Rename cancelled."

\* delete_file_impl, lines 749-767
delete_file_impl(filename) ==
    IF ~CanDelete
    THEN /\ fs_op' = NoFsOp
         /\ UNCHANGED <<files, disk, status_message>>
    ELSE /\ fs_op' = [op |-> "remove", name |-> filename, ok |-> filename \in disk]
         /\ IF filename \in disk
            THEN /\ status_message' = "Deleted file: {}"
                 /\ disk' = disk \ {filename}
                 /\ files' = list_wav_files(disk')
            ELSE /\ status_message' = "Error deleting file: {}"
                 /\ UNCHANGED <<files, disk>>

(***************************************************************************)
(* update: one action per Message, lines 789-835.  The actions that take   *)
(* inputs from the environment are given the sets the inputs come from.    *)
(***************************************************************************)
\* what play_file_impl asked the output device and got, lines 449-484: the
\* configurations advertised, the channel count and rate of the file, and the
\* configuration matched
Queried(file, dev) ==
    IF CanPlay /\ Loads(file) /\ dev.present /\ dev.query_ok
    THEN Some([cfgs |-> dev.cfgs, channels |-> file.channels, rate |-> file.rate,
               selected |-> matched(dev.cfgs, file.channels, file.rate)])
    ELSE None

\* the input device is looked for only past the guard, line 145
DevicesFound(devs) == IF CanStartRecording THEN devs ELSE {NoInputDevice}

\* the file is opened only past the guard, line 359
FilesOpened(wavs) ==
    IF CanPlay THEN wavs ELSE {WavFile(FALSE, "Float", 32, 1, 48000, <<>>, FALSE)}

StartRecordingOn(devs) ==
    /\ \E dev \in DevicesFound(devs) : start_recording_impl(dev)
    /\ fs_op' = NoFsOp
    /\ out' = <<>>
    /\ UNCHANGED sync
    /\ queried' = None
    /\ UNCHANGED <<playVars, fileVars, playback_status, pending_finalize>>

StopRecording ==
    /\ stop_recording_impl
    /\ fs_op' = NoFsOp
    /\ out' = <<>>
    /\ UNCHANGED sync
    /\ queried' = None
    /\ UNCHANGED <<playVars, fileVars, playback_status, pending_finalize>>

PlayFileOf(wavs, devs) ==
    /\ \E filename \in FileNames, file \in FilesOpened(wavs) :
         \E dev \in IF Loads(file) THEN devs ELSE {NoOutputDevice} :
           /\ play_file_impl(filename, file, dev)
           /\ queried' = Queried(file, dev)
    /\ fs_op' = NoFsOp
    /\ out' = <<>>
    /\ UNCHANGED sync
    /\ UNCHANGED <<recVars, fileVars, playback_status, pending_finalize>>

PausePlayback ==
    /\ pause_playback_impl
    /\ fs_op' = NoFsOp
    /\ out' = <<>>
    /\ UNCHANGED sync
    /\ queried' = None
    /\ UNCHANGED <<recVars, fileVars, playback_status, pending_finalize>>

ResumePlayback ==
    /\ resume_playback_impl
    /\ fs_op' = NoFsOp
    /\ out' = <<>>
    /\ UNCHANGED sync
    /\ queried' = None
    /\ UNCHANGED <<recVars, fileVars, playback_status, pending_finalize>>

StopPlayback ==
    /\ stop_playback_impl
    /\ fs_op' = NoFsOp
    /\ out' = <<>>
    /\ UNCHANGED sync
    /\ queried' = None
    /\ UNCHANGED <<recVars, fileVars, playback_status, pending_finalize>>

\* fs_ok: whether fs::remove_file succeeds
DeleteFile ==
    /\ out' = <<>>
    /\ UNCHANGED sync
    /\ queried' = None
    /\ \E filename \in FileNames : delete_file_impl(filename)
    /\ UNCHANGED <<recVars, playVars, timeVars, renaming_file, new_name,
                   playback_status, pending_finalize>>

StartRename ==
    /\ \E filename \in FileNames : start_rename_impl(filename)
    /\ fs_op' = NoFsOp
    /\ out' = <<>>
    /\ UNCHANGED sync
    /\ queried' = None
    /\ UNCHANGED <<recVars, playVars, timeVars, files, disk, status_message,
                   playback_status, pending_finalize>>

\* the rename input is shown only for the file being renamed, lines 882-887
UpdateRenameName ==
    /\ IsSome(renaming_file)
    /\ \E name \in TypedTexts : new_name' = name
    /\ fs_op' = NoFsOp
    /\ out' = <<>>
    /\ UNCHANGED sync
    /\ queried' = None
    /\ UNCHANGED <<recVars, playVars, timeVars, files, disk, renaming_file,
                   status_message, playback_status, pending_finalize>>

ConfirmRename ==
    /\ out' = <<>>
    /\ UNCHANGED sync
    /\ queried' = None
    /\ confirm_rename_impl
    /\ UNCHANGED <<recVars, playVars, timeVars, playback_status, pending_finalize>>

CancelRename ==
    /\ cancel_rename_impl
    /\ fs_op' = NoFsOp
    /\ out' = <<>>
    /\ UNCHANGED sync
    /\ queried' = None
    /\ UNCHANGED <<recVars, playVars, timeVars, files, disk, playback_status,
                   pending_finalize>>

\* Message::FinalizeRecording, produced by the task Tick returns, line 812
FinalizeRecording ==
    /\ out' = <<>>
    /\ UNCHANGED sync
    /\ queried' = None
    /\ pending_finalize > 0
    /\ pending_finalize' = pending_finalize - 1
    /\ \E write_ok \in BOOLEAN : (write_ok => HasRoom) /\ finalize_recording(write_ok)
    /\ UNCHANGED <<playVars, playback_status>>

\* the subscription delivers Tick only in these states, lines 838-845
TickSubscribed ==
    is_recording \/ playback_state # "Stopped" \/ IsSome(stopping_time)

\* line 811
GraceOver ==
    IsSome(stopping_time) /\ Since(stopping_time) >= GraceMs

\* the Tick arm of update, lines 805-820, with now the current instant
tick ==
    LET elapsed == IF IsSome(start_time) THEN Since(start_time)
                   ELSE elapsed_time
    IN IF GraceOver
       THEN /\ pending_finalize < MaxPending
            /\ pending_finalize' = pending_finalize + 1
            /\ elapsed_time' = elapsed
            /\ UNCHANGED <<playVars, start_time, status_message, playback_status>>
       ELSE IF playback_status > 0
       THEN /\ playback_status' = playback_status - 1
            /\ status_message' = "Playback finished."
            /\ IF playback_state # "Stopped"
               THEN stop_playback_effect
               ELSE /\ elapsed_time' = elapsed
                    /\ UNCHANGED <<playVars, start_time>>
            /\ UNCHANGED pending_finalize
       ELSE /\ elapsed_time' = elapsed
            /\ UNCHANGED <<playVars, start_time, status_message, playback_status,
                           pending_finalize>>

\* Message::Tick(now)
Tick ==
    /\ TickSubscribed
    /\ tick
    /\ fs_op' = NoFsOp
    /\ out' = <<>>
    /\ UNCHANGED sync
    /\ queried' = None
    /\ UNCHANGED <<recVars, fileVars>>

\* Message::Toggle, lines 821-831
ToggleOn(devs) ==
    /\ IF is_recording
       THEN stop_recording_impl /\ UNCHANGED playVars
       ELSE IF playback_state = "Playing"
       THEN pause_playback_impl /\ UNCHANGED recVars
       ELSE IF playback_state = "Paused"
       THEN resume_playback_impl /\ UNCHANGED recVars
       ELSE /\ \E dev \in DevicesFound(devs) : start_recording_impl(dev)
            /\ UNCHANGED playVars
    /\ fs_op' = NoFsOp
    /\ out' = <<>>
    /\ UNCHANGED sync
    /\ queried' = None
    /\ UNCHANGED <<fileVars, playback_status, pending_finalize>>

\* an instant StepMs later
Older(t) ==
    IF IsSome(t)
    THEN Some(IF Since(t) + StepMs > MaxAge THEN MaxAge ELSE Since(t) + StepMs)
    ELSE None

\* time passes: every stored instant is StepMs older
AdvanceClock ==
    /\ Older(start_time) # start_time \/ Older(stopping_time) # stopping_time
    /\ start_time' = Older(start_time)
    /\ stopping_time' = Older(stopping_time)
    /\ UNCHANGED <<is_recording, audio_data, input_stream, recording_sample_rate,
                   recording_channels, delivered, playVars, elapsed_time, fileVars,
                   status_message, playback_status, pending_finalize, fs_op, out, queried, sync>>

\* Message::Reset, line 832
Reset ==
    /\ fs_op' = NoFsOp
    /\ out' = <<>>
    /\ UNCHANGED sync
    /\ queried' = None
    /\ UNCHANGED <<recVars, playVars, timeVars, fileVars, status_message,
                   playback_status, pending_finalize>>

StartRecording == StartRecordingOn(InputDevices)
PlayFile == PlayFileOf(WavFiles, OutputDevices)
Toggle == ToggleOn(InputDevices)

(***************************************************************************)
(* Spec: recording and playback with every device and file of the input    *)
(* sets.  The file-management messages act on files, disk, renaming_file,  *)
(* new_name, status_message and fs_op only; FileSpec adds them, with one   *)
(* working device and one readable file.                                   *)
(***************************************************************************)
Next ==
    \/ StartRecording
    \/ StopRecording
    \/ PlayFile
    \/ PausePlayback
    \/ ResumePlayback
    \/ StopPlayback
    \/ FinalizeRecording
    \/ Tick
    \/ Toggle
    \/ Reset
    \/ InputCallback
    \/ OutputCallback
    \/ AdvanceClock

Spec == Init /\ [][Next]_vars

\* The tick subscription fires while it is subscribed, the task returned by Tick
\* delivers its message, the audio subsystem keeps invoking the callbacks of an
\* open stream, and time passes.
Fairness ==
    /\ WF_vars(Tick)
    /\ WF_vars(FinalizeRecording)
    /\ WF_vars(OutputCallback)
    /\ WF_vars(InputCallback)
    /\ WF_vars(AdvanceClock)

FairSpec == Spec /\ Fairness

NextFiles ==
    \/ StartRecordingOn(OneInputDevice)
    \/ StopRecording
    \/ PlayFileOf(OneWavFile, OneOutputDevice)
    \/ PausePlayback
    \/ ResumePlayback
    \/ StopPlayback
    \/ DeleteFile
    \/ StartRename
    \/ UpdateRenameName
    \/ ConfirmRename
    \/ CancelRename
    \/ FinalizeRecording
    \/ Tick
    \/ ToggleOn(OneInputDevice)
    \/ Reset
    \/ InputCallback
    \/ OutputCallback
    \/ AdvanceClock

FileSpec == Init /\ [][NextFiles]_vars

(***************************************************************************)
(* DirectorySpec: the steps of FileSpec, started in a working directory    *)
(* that may also be the one an earlier run has left behind: two            *)
(* recordings made, the first one deleted.                                 *)
(***************************************************************************)
LeftoverDisks == InitDisks \cup {{RecordingName(2)}}

DirectorySpec == InitIn(LeftoverDisks) /\ [][NextFiles]_vars

(***************************************************************************)
(* CoreSpec: recording and playback on a machine with one input device,    *)
(* one output device and one readable file, each of which may be missing.  *)
(***************************************************************************)
NextCore ==
    \/ StartRecordingOn(CoreInputDevices)
    \/ StopRecording
    \/ PlayFileOf(CoreWavFiles, CoreOutputDevices)
    \/ PausePlayback
    \/ ResumePlayback
    \/ StopPlayback
    \/ FinalizeRecording
    \/ Tick
    \/ ToggleOn(CoreInputDevices)
    \/ Reset
    \/ InputCallback
    \/ OutputCallback
    \/ AdvanceClock

CoreSpec == Init /\ [][NextCore]_vars

(***************************************************************************)
(* PlaySpec: playback of every file on every output device, on a machine   *)
(* without an input device.                                                *)
(***************************************************************************)
NextPlay ==
    \/ StartRecordingOn({NoInputDevice})
    \/ PlayFile
    \/ PausePlayback
    \/ ResumePlayback
    \/ StopPlayback
    \/ Tick
    \/ ToggleOn({NoInputDevice})
    \/ Reset
    \/ OutputCallback
    \/ AdvanceClock

PlaySpec == Init /\ [][NextPlay]_vars

(***************************************************************************)
(* ControlSpec: the control thread alone, with every outcome of every      *)
(* device and file, while the audio subsystem schedules no callback.       *)
(***************************************************************************)
NextControl ==
    \/ StartRecording
    \/ StopRecording
    \/ PlayFile
    \/ PausePlayback
    \/ ResumePlayback
    \/ StopPlayback
    \/ FinalizeRecording
    \/ Tick
    \/ Toggle
    \/ Reset
    \/ AdvanceClock

ControlSpec == Init /\ [][NextControl]_vars

(***************************************************************************)
(* NegotiationSpec: play_file_impl applied to every readable file and      *)
(* every list of at most MaxCfgs advertised configurations.                *)
(***************************************************************************)
NextNegotiation ==
    \/ PlayFileOf(LoadedWavFiles, AdvertisingDevices)
    \/ PausePlayback
    \/ ResumePlayback
    \/ StopPlayback

NegotiationSpec == Init /\ [][NextNegotiation]_vars

(***************************************************************************)
(* ConversionSpec: the output closures applied to every float file of at   *)
(* most MaxSamples samples on the grid k / ConvGrid of [-1, 1], played     *)
(* once on a device of each sample format play_file_impl drives.           *)
(***************************************************************************)
ConvSamples == {Norm(k, ConvGrid) : k \in -ConvGrid..ConvGrid}

ConvFiles ==
    {WavFile(TRUE, "Float", 32, 1, 48000, data, TRUE) :
       data \in UNION {[1..n -> ConvSamples] : n \in 1..MaxSamples}}

ConvDevices ==
    {OutDev(TRUE, TRUE, <<OutCfg(1, 8000, 48000, format)>>, TRUE, TRUE) :
       format \in {"F32", "I16", "U16", "U8"}}

NextConversion ==
    \/ PlayFileOf(ConvFiles, ConvDevices)
    \/ OutputCallback

ConversionSpec == Init /\ [][NextConversion]_vars

(***************************************************************************)
(* LockSpec: the same handlers and callbacks at the grain of their mutex   *)
(* statements.  sync.mutex tells who holds each mutex, sync.control the    *)
(* message the control thread is handling and the statements it has still  *)
(* to execute, sync.output and sync.input where the running invocation of  *)
(* each callback stands.  A statement of the form *x.lock().unwrap() = v   *)
(* is a lock step followed by a store step that releases the mutex; the    *)
(* fields only the control thread touches are assigned by the last step of *)
(* the handler.  Dropping a stream (assigning over the Option that holds   *)
(* it) returns once its callback is not running.                           *)
(***************************************************************************)
Lock(m) == [k |-> "lock", m |-> m]
Store(m) == [k |-> "store", m |-> m]
Drop(stream) == [k |-> "drop", m |-> stream]
Receive == [k |-> "try_recv", m |-> "none"]
Return == [k |-> "return", m |-> "none"]

\* whether start_recording_impl reaches the assignment of input_stream, line 245
InputStreamAssigned(dev) ==
    /\ dev.present /\ dev.config_ok
    /\ dev.format \in {"F32", "I16", "U16"}
    /\ dev.build_ok /\ InputStreamStarted(dev)

\* whether play_file_impl reaches the assignment of output_stream, line 696
OutputStreamAssigned(file, dev) ==
    /\ dev.present /\ dev.query_ok
    /\ IsSome(chosen(dev.cfgs, file.channels, file.rate))
    /\ Unwrap(chosen(dev.cfgs, file.channels, file.rate)).format
         \in {"F32", "I16", "U16", "U8"}
    /\ dev.build_ok /\ dev.play_ok

\* stop_playback_impl holding the cursor while it drops the stream
StopStatementsHolding ==
    <<Lock("playback_position"), Drop("output"), Store("playback_position"),
      Lock("is_stream_paused"), Store("is_stream_paused")>>

\* stop_playback_impl, lines 738, 744, 745
StopStatements ==
    <<Drop("output"), Lock("is_stream_paused"), Store("is_stream_paused"),
      Lock("playback_position"), Store("playback_position")>>

\* the statements update executes for a message, in source order
Statements(msg) ==
    CASE msg.type = "StartRecording" ->
           IF ~CanStartRecording THEN <<Return>>
           ELSE <<Lock("audio_data"), Store("audio_data")>>
                \o (IF InputStreamAssigned(msg.dev) THEN <<Drop("input")>> ELSE <<>>)
                \o <<Return>>
      [] msg.type = "StopRecording" -> <<Return>>
      [] msg.type = "FinalizeRecording" ->
           <<Drop("input"), Lock("audio_data"), Return>>
      [] msg.type = "PlayFile" ->
           IF ~CanPlay \/ ~Loads(msg.file) THEN <<Return>>
           ELSE <<Lock("playback_samples"), Store("playback_samples"),
                  Lock("playback_position"), Store("playback_position"),
                  Lock("is_stream_paused"), Store("is_stream_paused")>>
                \o (IF OutputStreamAssigned(msg.file, msg.dev)
                    THEN <<Drop("output")>> ELSE <<>>)
                \o <<Return>>
      [] msg.type = "PausePlayback" ->
           IF playback_state = "Playing"
           THEN <<Lock("is_stream_paused"), Store("is_stream_paused"), Return>>
           ELSE <<Return>>
      [] msg.type = "ResumePlayback" ->
           IF playback_state = "Paused"
           THEN <<Lock("is_stream_paused"), Store("is_stream_paused"), Return>>
           ELSE <<Return>>
      [] msg.type = "StopPlayback" ->
           IF playback_state # "Stopped"
           THEN StopStatements \o <<Return>> ELSE <<Return>>
      [] msg.type = "Tick" -> <<Receive>>

\* the messages the runtime may deliver, with what the handler will find
\* the play buttons of the file list, pressed while no capture stream is open:
\* the two streams share no mutex, and each is followed against the control thread
Playable == IF input_stream = None THEN FileNames ELSE {}

Messages ==
    {[type |-> "StartRecording", dev |-> dev] : dev \in CoreInputDevices}
      \cup {[type |-> "PlayFile", filename |-> filename, file |-> file, dev |-> dev] :
              filename \in Playable, file \in OneWavFile, dev \in CoreOutputDevices}
      \cup {[type |-> t] : t \in {"StopRecording", "PausePlayback", "ResumePlayback",
                                   "StopPlayback"}}
      \cup (IF pending_finalize > 0 THEN {[type |-> "FinalizeRecording"]} ELSE {})
      \cup (IF TickSubscribed /\ (GraceOver => pending_finalize < MaxPending)
            THEN {[type |-> "Tick"]} ELSE {})

NoMessage == [type |-> "none"]

ControlIdle == Len(sync.control) = 0
ControlMessage == sync.control[1]
ControlNext == sync.control[2]

\* update is entered with a message
Dispatch ==
    /\ ControlIdle
    /\ \E msg \in Messages :
         sync' = [sync EXCEPT !.control = <<msg>> \o Statements(msg)]
    /\ UNCHANGED <<recVars, playVars, timeVars, fileVars, status_message,
                   playback_status, pending_finalize, fs_op, out, queried>>

\* x.lock(): the control thread takes the mutex once it is free
ControlLock ==
    /\ ~ControlIdle
    /\ ControlNext.k = "lock"
    /\ sync.mutex[ControlNext.m] = "free"
    /\ sync' = [sync EXCEPT !.mutex[ControlNext.m] = "control",
                            !.control = <<ControlMessage>> \o Tail(Tail(sync.control))]
    /\ UNCHANGED <<recVars, playVars, timeVars, fileVars, status_message,
                   playback_status, pending_finalize, fs_op, out, queried>>

\* the value a handler stores under a mutex, lines 142, 431-433, 712, 725, 744, 745
Stored(msg, m) ==
    CASE m = "audio_data" -> <<>>
      [] m = "playback_samples" ->
           [i \in 1..Len(msg.file.data) |->
              FileToCanonical(msg.file.data[i], msg.file.format, msg.file.bits)]
      [] m = "playback_position" -> 0
      [] m = "is_stream_paused" -> msg.type = "PausePlayback"

\* *x.lock().unwrap() = v: the store, and the guard dropped at the end of the statement
ControlStore ==
    /\ ~ControlIdle
    /\ ControlNext.k = "store"
    /\ sync.mutex[ControlNext.m] = "control"
    /\ LET m == ControlNext.m
           v == Stored(ControlMessage, m)
       IN /\ audio_data' = IF m = "audio_data" THEN v ELSE audio_data
          /\ playback_samples' = IF m = "playback_samples" THEN v ELSE playback_samples
          /\ playback_position' = IF m = "playback_position" THEN v ELSE playback_position
          /\ is_stream_paused' = IF m = "is_stream_paused" THEN v ELSE is_stream_paused
    /\ sync' = [sync EXCEPT !.mutex[ControlNext.m] = "free",
                            !.control = <<ControlMessage>> \o Tail(Tail(sync.control))]
    /\ UNCHANGED <<is_recording, input_stream, stopping_time, recording_sample_rate,
                   recording_channels, delivered, playback_state,
                   currently_playing_file, output_stream, timeVars, fileVars,
                   status_message, playback_status, pending_finalize, fs_op, out,
                   queried>>

\* the stream held by a field is dropped: lines 245, 270, 696, 738
ControlDrop ==
    /\ ~ControlIdle
    /\ ControlNext.k = "drop"
    /\ IF ControlNext.m = "input"
       THEN /\ sync.input = "idle"
            /\ input_stream' = None
            /\ UNCHANGED output_stream
       ELSE /\ sync.output = "idle"
            /\ output_stream' = None
            /\ UNCHANGED input_stream
    /\ sync' = [sync EXCEPT !.control = <<ControlMessage>> \o Tail(Tail(sync.control))]
    /\ UNCHANGED <<is_recording, audio_data, stopping_time, recording_sample_rate,
                   recording_channels, delivered, playback_state,
                   currently_playing_file, playback_samples, playback_position,
                   is_stream_paused, timeVars, fileVars, status_message,
                   playback_status, pending_finalize, fs_op, out, queried>>

\* what the handler of msg has done when update returns
Handled(msg) ==
    CASE msg.type = "StartRecording" ->
           /\ IF CanStartRecording
              THEN start_recording_opened(msg.dev) /\ UNCHANGED audio_data
              ELSE UNCHANGED <<recVars, status_message, timeVars>>
           /\ fs_op' = NoFsOp
           /\ queried' = None
           /\ UNCHANGED <<playVars, fileVars, playback_status, pending_finalize>>
      [] msg.type = "StopRecording" ->
           /\ stop_recording_impl
           /\ fs_op' = NoFsOp
           /\ queried' = None
           /\ UNCHANGED <<playVars, fileVars, playback_status, pending_finalize>>
      [] msg.type = "FinalizeRecording" ->
           /\ pending_finalize' = pending_finalize - 1
           /\ \E write_ok \in BOOLEAN :
                (write_ok => HasRoom) /\ finalize_recording(write_ok)
           /\ queried' = None
           /\ UNCHANGED <<playVars, playback_status>>
      [] msg.type = "PlayFile" ->
           /\ play_file_impl(msg.filename, msg.file, msg.dev)
           /\ queried' = Queried(msg.file, msg.dev)
           /\ fs_op' = NoFsOp
           /\ UNCHANGED <<recVars, fileVars, playback_status, pending_finalize>>
      [] msg.type = "PausePlayback" ->
           /\ pause_playback_impl
           /\ fs_op' = NoFsOp
           /\ queried' = None
           /\ UNCHANGED <<recVars, fileVars, playback_status, pending_finalize>>
      [] msg.type = "ResumePlayback" ->
           /\ resume_playback_impl
           /\ fs_op' = NoFsOp
           /\ queried' = None
           /\ UNCHANGED <<recVars, fileVars, playback_status, pending_finalize>>
      [] msg.type = "StopPlayback" ->
           /\ stop_playback_impl
           /\ fs_op' = NoFsOp
           /\ queried' = None
           /\ UNCHANGED <<recVars, fileVars, playback_status, pending_finalize>>
      [] msg.type = "Tick" ->
           /\ tick
           /\ fs_op' = NoFsOp
           /\ queried' = None
           /\ UNCHANGED <<recVars, fileVars>>

\* update returns: the rest of the handler, and the guard of a mutex taken in
\* its last statement (line 274) dropped
ControlReturn ==
    /\ ~ControlIdle
    /\ ControlNext.k = "return"
    /\ Handled(ControlMessage)
    /\ out' = <<>>
    /\ sync' = [sync EXCEPT !.control = <<>>,
                            !.mutex = [m \in Mutexes |->
                                         IF sync.mutex[m] = "control" THEN "free"
                                         ELSE sync.mutex[m]]]

\* whether the Tick being handled goes on to stop_playback_impl, lines 810-817
TickStops == ~GraceOver /\ playback_status > 0 /\ playback_state # "Stopped"

\* playback_status_rx.try_recv(), line 816: with a signal received from a
\* session that is not Stopped the statements of stop_playback_impl follow,
\* otherwise update returns
ControlReceive ==
    /\ ~ControlIdle
    /\ ControlNext.k = "try_recv"
    /\ IF TickStops
       THEN /\ sync' = [sync EXCEPT !.control =
                          <<ControlMessage>> \o StopStatements \o <<Return>>]
            /\ UNCHANGED <<recVars, playVars, timeVars, fileVars, status_message,
                           playback_status, pending_finalize, fs_op, out, queried>>
       ELSE /\ Handled(ControlMessage)
            /\ out' = <<>>
            /\ sync' = [sync EXCEPT !.control = <<>>]

\* the audio thread calls the output closure, while the channel has room
OutputEnter ==
    /\ IsSome(output_stream)
    /\ sync.output = "idle"
    /\ playback_status < MaxSignals
    /\ sync' = [sync EXCEPT !.output = "lock_paused"]
    /\ UNCHANGED <<recVars, playVars, timeVars, fileVars, status_message,
                   playback_status, pending_finalize, fs_op, out, queried>>

\* paused_for_callback.lock(), line 547
OutputLockPaused ==
    /\ sync.output = "lock_paused"
    /\ sync.mutex["is_stream_paused"] = "free"
    /\ sync' = [sync EXCEPT !.mutex["is_stream_paused"] = "output", !.output = "read_paused"]
    /\ UNCHANGED <<recVars, playVars, timeVars, fileVars, status_message,
                   playback_status, pending_finalize, fs_op, out, queried>>

\* let is_paused = *guard; the guard is dropped; a paused closure fills and returns
OutputReadPaused ==
    /\ sync.output = "read_paused"
    /\ IF is_stream_paused
       THEN /\ \E w \in 1..MaxWindow : output_callback(TRUE, w)
            /\ sync' = [sync EXCEPT !.mutex["is_stream_paused"] = "free",
                                    !.output = "idle"]
       ELSE /\ sync' = [sync EXCEPT !.mutex["is_stream_paused"] = "free",
                                    !.output = "lock_samples"]
            /\ UNCHANGED <<playback_position, playback_status, out>>
    /\ UNCHANGED <<recVars, timeVars, fileVars, status_message, playback_state,
                   currently_playing_file, output_stream, playback_samples,
                   is_stream_paused, pending_finalize, fs_op, queried>>

\* samples_for_callback.lock(), line 553
OutputLockSamples ==
    /\ sync.output = "lock_samples"
    /\ sync.mutex["playback_samples"] = "free"
    /\ sync' = [sync EXCEPT !.mutex["playback_samples"] = "output", !.output = "lock_position"]
    /\ UNCHANGED <<recVars, playVars, timeVars, fileVars, status_message,
                   playback_status, pending_finalize, fs_op, out, queried>>

\* position_for_callback.lock(), line 554
OutputLockPosition ==
    /\ sync.output = "lock_position"
    /\ sync.mutex["playback_position"] = "free"
    /\ sync' = [sync EXCEPT !.mutex["playback_position"] = "output", !.output = "copy"]
    /\ UNCHANGED <<recVars, playVars, timeVars, fileVars, status_message,
                   playback_status, pending_finalize, fs_op, out, queried>>

\* lines 556-571: the copy under both guards, which are dropped when the closure returns
OutputCopy ==
    /\ sync.output = "copy"
    /\ \E w \in 1..MaxWindow : output_callback(FALSE, w)
    /\ sync' = [sync EXCEPT !.mutex["playback_samples"] = "free",
                            !.mutex["playback_position"] = "free",
                            !.output = "idle"]
    /\ UNCHANGED <<recVars, timeVars, fileVars, status_message, playback_state,
                   currently_playing_file, output_stream, playback_samples,
                   is_stream_paused, pending_finalize, fs_op, queried>>

\* the audio thread calls the input closure, while the capture buffer has room
InputEnter ==
    /\ IsSome(input_stream)
    /\ sync.input = "idle"
    /\ Len(audio_data) < MaxCapture /\ Len(delivered) < MaxCapture
    /\ sync' = [sync EXCEPT !.input = "lock"]
    /\ UNCHANGED <<recVars, playVars, timeVars, fileVars, status_message,
                   playback_status, pending_finalize, fs_op, out, queried>>

\* audio_buf.lock(), lines 194, 207, 221
InputLock ==
    /\ sync.input = "lock"
    /\ sync.mutex["audio_data"] = "free"
    /\ sync' = [sync EXCEPT !.mutex["audio_data"] = "input", !.input = "extend"]
    /\ UNCHANGED <<recVars, playVars, timeVars, fileVars, status_message,
                   playback_status, pending_finalize, fs_op, out, queried>>

\* buf.extend(..), and the guard dropped when the closure returns
InputExtend ==
    /\ sync.input = "extend"
    /\ input_callback
    /\ sync' = [sync EXCEPT !.mutex["audio_data"] = "free", !.input = "idle"]
    /\ UNCHANGED <<is_recording, input_stream, stopping_time, recording_sample_rate,
                   recording_channels, status_message, timeVars, playVars, fileVars,
                   playback_status, pending_finalize, fs_op, out, queried>>

\* time passes between two messages: a handler takes less than StepMs
ClockStep == ControlIdle /\ AdvanceClock

ControlStep == ControlLock \/ ControlStore \/ ControlDrop \/ ControlReceive
                 \/ ControlReturn
OutputStep == OutputLockPaused \/ OutputReadPaused \/ OutputLockSamples
                \/ OutputLockPosition \/ OutputCopy
InputStep == InputLock \/ InputExtend

NextLock ==
    \/ Dispatch
    \/ ControlLock
    \/ ControlStore
    \/ ControlDrop
    \/ ControlReceive
    \/ ControlReturn
    \/ OutputEnter
    \/ OutputLockPaused
    \/ OutputReadPaused
    \/ OutputLockSamples
    \/ OutputLockPosition
    \/ OutputCopy
    \/ InputEnter
    \/ InputLock
    \/ InputExtend
    \/ ClockStep

LockSpec == Init /\ [][NextLock]_vars

\* each thread is scheduled, and a thread waiting for a mutex that is released
\* again and again gets it
FairLockSpec ==
    /\ LockSpec
    /\ WF_vars(ControlStep)
    /\ SF_vars(OutputStep)
    /\ SF_vars(InputStep)

(***************************************************************************)
(* Properties.                                                             *)
(***************************************************************************)
\* the recorder states of the design: Recording is is_recording, Stopping is the
\* grace period stop_recording_impl opens, Idle is neither
Idle == ~is_recording /\ stopping_time = None

\* C1: in every reachable state recording and playback are never active
\* together: is_recording implies playback_state = Stopped, and playback_state
\* in {Playing, Paused} implies ~is_recording.
C1_MutualExclusion ==
    /\ is_recording => playback_state = "Stopped"
    /\ playback_state \in {"Playing", "Paused"} => ~is_recording

\* a recording is running after a file has been played, and a file is listed
\* whose Play the guard rejects
C1_Witness ==
    /\ is_recording
    /\ playback_samples # <<>>
    /\ files # <<>>
    /\ playback_state = "Stopped"

\* C2: in every reachable state, the Stopping grace state included, the input
\* stream and the output stream are not both open.
C2_StreamsExclusive == ~(IsSome(input_stream) /\ IsSome(output_stream))

\* C3: a session whose cursor has reached the end of its buffer puts exactly
\* one completion signal on the channel: the callback sends when it moves the
\* cursor to the end, and sends at no other invocation.
C3_CompletionOnce ==
    [][/\ playback_status' > playback_status
          => /\ playback_position < Len(playback_samples)
             /\ playback_position' = Len(playback_samples)
       /\ (playback_position' > playback_position
           /\ playback_position' = Len(playback_samples))
          => playback_status' = playback_status + 1]_vars

\* C4: start_recording, issued as StartRecording or through Toggle, in a state
\* that is not Idle with playback Stopped leaves is_recording, the capture
\* buffer, the input stream and the stop timestamp unchanged.
C4_StartOnlyWhenIdle ==
    [][(/\ StartRecording \/ (Toggle /\ ~is_recording /\ playback_state = "Stopped")
        /\ ~(Idle /\ playback_state = "Stopped"))
       => UNCHANGED <<is_recording, audio_data, input_stream, stopping_time>>]_vars

\* C5: once stop_recording has been accepted, with ticks firing, finalize
\* eventually runs and the recorder ends Idle: is_recording false, no stop
\* timestamp, no input stream, whatever commands arrive during the grace period.
C5_StopLeadsToIdle ==
    (IsSome(stopping_time) /\ ~is_recording) ~> (Idle /\ input_stream = None)

\* C6: for a recording started successfully and then stopped, finalize hands
\* the writer exactly the blocks the capture callback delivered since that
\* start, in arrival order, with the channel count and sample rate chosen at
\* that start and 32-bit float encoding.
C6_WriterGetsDelivered ==
    [][(/\ FinalizeRecording
        /\ IsSome(stopping_time) /\ ~is_recording /\ IsSome(input_stream)
        /\ delivered # <<>>)
       => /\ fs_op'.op = "write"
          /\ fs_op'.samples = delivered
          /\ fs_op'.channels = Unwrap(input_stream).channels
          /\ fs_op'.sample_rate = Unwrap(input_stream).sample_rate
          /\ fs_op'.bits_per_sample = 32
          /\ fs_op'.sample_format = "Float"]_vars

\* C7: while Paused every output callback fills the whole window with the
\* format's silence value and leaves the cursor unchanged, the cursor is kept
\* through pause and resume, and a callback of a Playing session emits first
\* the sample at the cursor.
C7_PausedSilence ==
    [][/\ (OutputCallback /\ playback_state = "Paused")
          => /\ out' # <<>>
             /\ \A i \in 1..Len(out') :
                  out'[i] = Silence(Unwrap(output_stream).format)
             /\ playback_position' = playback_position
       /\ (playback_state = "Paused" /\ playback_state' # "Stopped")
          => playback_position' = playback_position
       /\ (/\ OutputCallback
           /\ playback_state = "Playing"
           /\ playback_position < Len(playback_samples))
          => out'[1] = FromCanonical(playback_samples[playback_position + 1],
                                     Unwrap(output_stream).format, 0)]_vars

\* a paused session, stopped in the middle of its buffer, whose callback has
\* just written a window
C7_Witness ==
    /\ playback_state = "Paused"
    /\ out # <<>>
    /\ playback_position > 0
    /\ playback_position < Len(playback_samples)

\* C8: ticks while Paused do not change the elapsed time, and the elapsed time
\* of a session never goes back: after pause at E and resume, every tick
\* reports at least E.
C8_ElapsedKept ==
    [][/\ (playback_state = "Paused" /\ playback_state' = "Paused")
          => elapsed_time' = elapsed_time
       /\ (/\ playback_state \in {"Playing", "Paused"}
           /\ playback_state' \in {"Playing", "Paused"})
          => elapsed_time' >= elapsed_time]_vars

\* C9: a Playing session that is not left paused and not stopped by the user
\* has its cursor reach the end of the buffer (and a later tick then stops it
\* with 'Playback finished.').
C9_PlayingReachesEnd ==
    (playback_state = "Playing")
      ~> \/ /\ playback_state # "Stopped"
            /\ playback_position = Len(playback_samples)
         \/ playback_state = "Paused"
         \/ playback_state = "Stopped" /\ status_message = "Playback stopped."

\* C10: no rename or delete reaches the filesystem in a state where
\* is_recording is true or playback_state is not Stopped, and no delete while a
\* rename is in progress.
C10_NoFileOpWhileBusy ==
    [][((ConfirmRename \/ DeleteFile) /\ fs_op'.op \in {"rename", "remove"})
       => /\ ~is_recording
          /\ playback_state = "Stopped"
          /\ fs_op'.op = "remove" => renaming_file = None]_vars

\* C11: stop_recording issued when not recording and stop_playback issued when
\* playback is Stopped leave every field of the recorder unchanged, so a second
\* stop changes nothing the first has not.
C11_StopsAreNoOps ==
    [][/\ (StopRecording /\ ~is_recording) => UNCHANGED progVars
       /\ (StopPlayback /\ playback_state = "Stopped") => UNCHANGED progVars]_vars

\* a first stop_recording has been accepted (the recorder is Stopping with
\* captured samples) and playback is Stopped: either stop is repeated here
C11_Witness ==
    /\ ~is_recording
    /\ IsSome(stopping_time)
    /\ audio_data # <<>>
    /\ playback_state = "Stopped"
    /\ playback_samples # <<>>

\* C12: when finalize runs for a recording that was started successfully and
\* stopped and for which the capture callback has delivered no sample, it
\* reports the empty-recording error, makes no filesystem call, leaves the file
\* list unchanged and leaves the recorder Idle with no input stream.
C12_EmptyRecording ==
    [][(/\ FinalizeRecording
        /\ ~is_recording /\ IsSome(stopping_time) /\ IsSome(input_stream)
        /\ delivered = <<>>)
       => /\ status_message' = "Error saving file: No audio data captured"
          /\ fs_op' = NoFsOp
          /\ files' = files
          /\ disk' = disk
          /\ ~is_recording' /\ stopping_time' = None /\ input_stream' = None]_vars

\* the recorder after such a finalize
C12_Witness ==
    /\ status_message = "Error saving file: No audio data captured"
    /\ Idle
    /\ input_stream = None
    /\ fs_op = NoFsOp
    /\ pending_finalize = 0

\* the input devices with which start_recording_impl fails at some step,
\* lines 145-159, 233-255
InputFails(dev) ==
    \/ ~dev.present
    \/ ~dev.config_ok
    \/ dev.format \notin {"F32", "I16", "U16"}
    \/ ~dev.build_ok
    \/ ~dev.play_ok

\* the files and output devices with which play_file_impl fails at some step,
\* lines 359-428, 440-468, 511-517, 684-707
PlayFails(file, dev) ==
    \/ ~Loads(file)
    \/ ~dev.present
    \/ ~dev.query_ok
    \/ chosen(dev.cfgs, file.channels, file.rate) = None
    \/ Unwrap(chosen(dev.cfgs, file.channels, file.rate)).format
         \notin {"F32", "I16", "U16", "U8"}
    \/ ~dev.build_ok
    \/ ~dev.play_ok

\* C13: a play that fails at any step leaves playback_state Stopped, no output
\* stream and no file marked as playing; a start_recording that fails at any
\* step leaves is_recording false and retains no newly built input stream.
C13_FailureIsSafe ==
    [][/\ \A dev \in InputDevices :
            (CanStartRecording /\ InputFails(dev) /\ start_recording_impl(dev))
            => ~is_recording' /\ input_stream' = input_stream
       /\ \A file \in WavFiles, dev \in OutputDevices :
            (/\ CanPlay /\ PlayFails(file, dev)
             /\ \E filename \in FileNames : play_file_impl(filename, file, dev))
            => /\ playback_state' = "Stopped"
               /\ output_stream' = None
               /\ currently_playing_file' = None]_vars

\* a start that failed at stream.play() after an earlier session of each kind
C13_Witness ==
    /\ status_message = "Failed to start input stream: {}"
    /\ ~is_recording
    /\ input_stream = None
    /\ playback_samples # <<>>

\* the sample formats play_file_impl builds an output stream for, lines 545-683
Drivable == {"F32", "I16", "U16", "U8"}

\* C14: whenever the output device advertises a configuration the playback
\* session can drive, play does not fail because the configuration it selected
\* has an unsupported sample format.
C14_NegotiationUsable ==
    (/\ IsSome(queried)
     /\ \E i \in 1..Len(Unwrap(queried).cfgs) :
          Unwrap(queried).cfgs[i].format \in Drivable)
    => status_message # "Unsupported output sample format: {}"

\* the ranking of the design: F32 < I16 < I32 < U16 < other < U8
DesignRank(format) ==
    CASE format = "F32" -> 1
      [] format = "I16" -> 2
      [] format = "I32" -> 3
      [] format = "U16" -> 4
      [] format = "U8" -> 6
      [] OTHER -> 5

DesignDistance(c, rate) == IF c.max >= rate THEN c.max - rate ELSE rate - c.max

\* the pair of c is lexicographically at most the pair of d
DesignAtMost(c, d, rate) ==
    \/ DesignRank(c.format) < DesignRank(d.format)
    \/ /\ DesignRank(c.format) = DesignRank(d.format)
       /\ DesignDistance(c, rate) <= DesignDistance(d, rate)

\* the positions of the configurations with the requested channel count
Candidates(q) == {i \in 1..Len(q.cfgs) : q.cfgs[i].channels = q.channels}

\* C15: when some advertised configuration has the requested channel count,
\* the one selected is the first in advertised order that minimises
\* (format_priority, |max_rate - requested_rate|) lexicographically over the
\* channel-matching configurations, with F32 < I16 < I32 < U16 < other < U8.
C15_FirstMinimumSelected ==
    (IsSome(queried) /\ Candidates(Unwrap(queried)) # {})
    => LET q == Unwrap(queried)
           minima == {i \in Candidates(q) :
                        \A j \in Candidates(q) :
                          DesignAtMost(q.cfgs[i], q.cfgs[j], q.rate)}
       IN \E i \in minima :
            /\ \A j \in minima : i <= j
            /\ q.selected = Some(q.cfgs[i])

\* a session is Playing after a query answered with two different
\* configurations of equal rank and distance, the first of which was selected
C15_Witness ==
    /\ playback_state = "Playing"
    /\ IsSome(queried)
    /\ LET q == Unwrap(queried)
       IN /\ Len(q.cfgs) = 2
          /\ Candidates(q) = {1, 2}
          /\ q.cfgs[1] # q.cfgs[2]
          /\ q.cfgs[1].format = q.cfgs[2].format
          /\ q.cfgs[1].max = q.cfgs[2].max
          /\ q.selected = Some(q.cfgs[1])

\* lines 505-509: the status that names the file's and the device's channel counts
ChannelMismatchStatus == "Using fallback config (channels: {} -> {})"

\* C16: when play returns after a query that advertised configurations none of
\* which has the file's channel count, a session that plays uses the first
\* advertised configuration at its maximum rate, and the status reports the
\* channel mismatch.
C16_FallbackReported ==
    (/\ IsSome(queried)
     /\ Unwrap(queried).cfgs # <<>>
     /\ Candidates(Unwrap(queried)) = {})
    => LET first == Unwrap(queried).cfgs[1]
       IN /\ playback_state = "Playing"
             => output_stream = Some([format |-> first.format,
                                      channels |-> first.channels,
                                      sample_rate |-> first.max])
          /\ status_message = ChannelMismatchStatus

\* C17: a delete or a rename attempted while is_recording is true reaches no
\* filesystem call and starts no rename, and the attempt writes the status: the
\* status afterwards is its report that the operation cannot be performed
\* while recording, not the text that was there before the attempt.
C17_RejectedWithStatus ==
    [][(is_recording /\ (DeleteFile \/ StartRename))
       => /\ fs_op' = NoFsOp
          /\ UNCHANGED <<files, disk, renaming_file, new_name>>
          /\ status_message' # status_message]_vars

\* the canonical value of what an output closure wrote: the input closure of
\* the format (lines 193-226) and, for the 8-bit format the program never
\* reads, the map that undoes scaled = (sample + 1.0) * 127.5 (line 666)
ReadBack(v, format) ==
    IF format = "U8" THEN <<2 * v - U8Max, U8Max>> ELSE ToCanonical(v, format)

\* |y - x| <= t2 / (2 * y[2]): the distance of the rationals y and x is at
\* most t2 halves of the unit 1 / y[2]
WithinHalfUnits(y, x, t2) == 2 * Abs(y[1] * x[2] - x[1] * y[2]) <= t2 * x[2]

\* one quantization step in halves of the unit of ReadBack: 1/32767 for I16,
\* 2/65535 for U16, nothing for F32, and for U8 2/255 plus a dither of 0.5/255
ClaimedTolerance(format) ==
    CASE format = "F32" -> 0
      [] format = "I16" -> 2
      [] format = "U16" -> 4
      [] format = "U8" -> 5

\* the same with the dither of line 667 at its size in canonical units: half
\* a level of 2/255, that is 1/255
DitherTolerance(format) == IF format = "U8" THEN 6 ELSE ClaimedTolerance(format)

\* every sample an unpaused output callback converts reads back within the tolerance
RoundTripWithin(tolerance(_)) ==
    (OutputCallback /\ ~CallbackPaused)
    => LET format == Unwrap(output_stream).format
       IN \A i \in 1..(playback_position' - playback_position) :
            WithinHalfUnits(ReadBack(out'[i], format),
                            playback_samples[playback_position + i],
                            tolerance(format))

\* C18: for every supported encoding and every canonical sample x in [-1, 1],
\* converting x to the encoding and back gives a value within one quantization
\* step of x, and for UInt8 within one step plus the dither magnitude 0.5/255.
C18_RoundTrip == [][RoundTripWithin(ClaimedTolerance)]_vars

\* C18 as amended: the same with, for UInt8, one step (2/255) plus the dither
\* magnitude of half a step (1/255).
C18_RoundTripDither == [][RoundTripWithin(DitherTolerance)]_vars

\* an 8-bit callback has written level 158 for the sample 1/4 at index 0 of its
\* window: 159.375 dithered by -0.5 and truncated, 2.75/255 below the sample
C18_Witness ==
    /\ IsSome(output_stream)
    /\ Unwrap(output_stream).format = "U8"
    /\ playback_samples = <<Norm(1, 4)>>
    /\ playback_position = 1
    /\ out # <<>>
    /\ out[1] = 158

\* C19: finalize is never performed earlier than 200 ms after the
\* stop_recording it finalizes, and at most once for each accepted
\* stop_recording: a tick asks for it only when the stop timestamp is at least
\* 200 ms old, and every FinalizeRecording handled finds a stop timestamp that
\* is at least 200 ms old and no recording running (finalize clears the
\* timestamp, so a second one for the same stop would find none).
C19_FinalizeAfterGrace ==
    [][/\ (Tick /\ pending_finalize' > pending_finalize) => GraceOver
       /\ FinalizeRecording => (~is_recording /\ GraceOver)]_vars

\* C20: a playback session starts with the cursor at index 0 of the loaded
\* buffer; while it is Playing or Paused the buffer is kept, every callback of
\* the Playing session copies the len = min(window size, remaining) samples at
\* the cursor, in order, pads the window with silence and advances the cursor
\* by exactly len, and no other step moves the cursor: across any interleaving
\* of callbacks with pause and resume each sample is emitted once, in order.
C20_EachSampleOnce ==
    [][/\ (playback_state = "Stopped" /\ playback_state' # "Stopped")
          => playback_position' = 0
       /\ (playback_state # "Stopped" /\ playback_state' # "Stopped")
          => /\ playback_samples' = playback_samples
             /\ IF OutputCallback /\ playback_state = "Playing"
                THEN LET format == Unwrap(output_stream).format
                         w == Len(out')
                         remaining == Len(playback_samples) - playback_position
                         len == IF w < remaining THEN w ELSE remaining
                     IN /\ w >= 1
                        /\ playback_position' = playback_position + len
                        /\ \A i \in 1..len :
                             out'[i] = FromCanonical(
                                 playback_samples[playback_position + i], format, i - 1)
                        /\ \A i \in (len + 1)..w : out'[i] = Silence(format)
                ELSE playback_position' = playback_position]_vars

\* a session that was paused and resumed after its first callback has had a
\* later callback emit its last sample
C20_Witness ==
    /\ playback_state = "Playing"
    /\ out # <<>>
    /\ Len(playback_samples) >= 2
    /\ playback_position = Len(playback_samples)
    /\ out[1] = FromCanonical(playback_samples[Len(playback_samples)],
                              Unwrap(output_stream).format, 0)
    /\ elapsed_time > 0
    /\ start_time = Some(0)

\* the silence values of the design: 0 for F32 and I16, 32767 for U16, 128 for U8
DesignSilence(format) ==
    CASE format = "F32" -> <<0, 1>>
      [] format = "I16" -> 0
      [] format = "U16" -> 32767
      [] format = "U8" -> 128

\* C21: an unpaused output callback with fewer samples remaining than its
\* window holds, none included, writes the whole window, and every slot past
\* the copied samples holds the silence value of the encoding.
C21_RemainderIsSilence ==
    [][(OutputCallback /\ ~CallbackPaused)
       => LET remaining == Len(playback_samples) - playback_position
          IN /\ Len(out') >= 1
             /\ \A i \in 1..Len(out') :
                  i > remaining
                  => out'[i] = DesignSilence(Unwrap(output_stream).format)]_vars

\* a Playing F32 session whose callback has just copied the last sample, which
\* is not silence, into a window of two slots and padded the second
C21_Witness ==
    /\ playback_state = "Playing"
    /\ IsSome(output_stream)
    /\ Unwrap(output_stream).format = "F32"
    /\ playback_position = Len(playback_samples)
    /\ Len(out) = 2
    /\ out[1] = playback_samples[Len(playback_samples)]
    /\ out[1] # <<0, 1>>
    /\ out[2] = <<0, 1>>

\* C22: the stream of a session that plays on the configuration selected among
\* the channel-matching ones runs at the file's sample rate when that lies
\* within the configuration's [min, max] range and at the configuration's
\* maximum rate otherwise, also when the file's rate is below the minimum.
C22_RateInRangeOrMax ==
    (/\ playback_state = "Playing"
     /\ IsSome(queried)
     /\ IsSome(Unwrap(queried).selected))
    => LET q == Unwrap(queried)
           c == Unwrap(q.selected)
       IN Unwrap(output_stream).sample_rate
            = IF c.min <= q.rate /\ q.rate <= c.max THEN q.rate ELSE c.max

\* a session plays a file whose rate is below the minimum of the selected
\* configuration, at the configuration's maximum rate
C22_Witness ==
    /\ playback_state = "Playing"
    /\ IsSome(queried)
    /\ IsSome(Unwrap(queried).selected)
    /\ Unwrap(queried).rate < Unwrap(Unwrap(queried).selected).min
    /\ Unwrap(Unwrap(queried).selected).min < Unwrap(Unwrap(queried).selected).max
    /\ Unwrap(output_stream).sample_rate = Unwrap(Unwrap(queried).selected).max

\* what a thread in the middle of a handler or a closure waits for, if anything
ControlWaits ==
    /\ ~ControlIdle
    /\ \/ ControlNext.k = "lock" /\ sync.mutex[ControlNext.m] # "free"
       \/ ControlNext.k = "drop" /\ ControlNext.m = "input" /\ sync.input # "idle"
       \/ ControlNext.k = "drop" /\ ControlNext.m = "output" /\ sync.output # "idle"

OutputWaits ==
    \/ sync.output = "lock_paused" /\ sync.mutex["is_stream_paused"] # "free"
    \/ sync.output = "lock_samples" /\ sync.mutex["playback_samples"] # "free"
    \/ sync.output = "lock_position" /\ sync.mutex["playback_position"] # "free"

InputWaits == sync.input = "lock" /\ sync.mutex["audio_data"] # "free"

\* the threads that have something to do
Running ==
    (IF ControlIdle THEN {} ELSE {"control"})
      \cup (IF sync.output = "idle" THEN {} ELSE {"output"})
      \cup (IF sync.input = "idle" THEN {} ELSE {"input"})

Waiting ==
    (IF ControlWaits THEN {"control"} ELSE {})
      \cup (IF OutputWaits THEN {"output"} ELSE {})
      \cup (IF InputWaits THEN {"input"} ELSE {})

PlaybackConsistent ==
    /\ (playback_state = "Stopped") <=> (output_stream = None)
    /\ (playback_state = "Stopped") <=> (currently_playing_file = None)
    /\ is_stream_paused <=> (playback_state = "Paused")

StopTearsDown ==
    (playback_state # "Stopped" /\ playback_state' = "Stopped")
      => /\ output_stream' = None
         /\ playback_position' = 0
         /\ is_stream_paused' = FALSE
         /\ currently_playing_file' = None

C24_StopTearsDown == []PlaybackConsistent /\ [][StopTearsDown]_vars

\* a paused playback has just been stopped by the Stop button
C24_Witness ==
    /\ status_message = "Playback stopped."
    /\ playback_state = "Stopped"
    /\ playback_samples # <<>>
    /\ playback_position = 0
    /\ ~is_stream_paused

(***************************************************************************)
(* C25: a start_recording that succeeds opens the capture stream with the  *)
(* device default's format and channel count, at 48000 Hz when the range   *)
(* of the default configuration (its one rate) permits 48000 Hz and at the *)
(* default rate otherwise, and recording_sample_rate and                   *)
(* recording_channels, which go into the file header, are the rate and     *)
(* the channel count of that stream.                                       *)
(***************************************************************************)
DesignInputRate(dev) ==
    IF PreferredRate \in dev.rate..dev.rate THEN PreferredRate ELSE dev.rate

RecordingStarts == ~is_recording /\ is_recording'

C25_CaptureRate ==
    [][RecordingStarts =>
         /\ \E dev \in InputDevices :
              /\ dev.present /\ dev.config_ok
              /\ input_stream' = Some([format |-> dev.format,
                                       channels |-> dev.channels,
                                       sample_rate |-> DesignInputRate(dev)])
         /\ recording_sample_rate' = Unwrap(input_stream').sample_rate
         /\ recording_channels' = Unwrap(input_stream').channels]_vars

\* a recording has started on the device whose default is 2 channels at 44100 Hz
C25_Witness ==
    /\ is_recording
    /\ status_message = "Recording..."
    /\ IsSome(input_stream)
    /\ Unwrap(input_stream).sample_rate = 44100
    /\ recording_sample_rate = 44100
    /\ recording_channels = 2

(***************************************************************************)
(* C26: a tick that receives a completion signal (and reports "Playback    *)
(* finished.") is a tick of a playback session that is still Playing or    *)
(* Paused and whose cursor has reached the end of its buffer: a signal     *)
(* left by an earlier session neither stops a later one early nor reports  *)
(* a finish while playback is Stopped.                                     *)
(***************************************************************************)
SignalReceived == playback_status' < playback_status

C26_FinishedOnlyAtEnd ==
    [][SignalReceived =>
         /\ playback_state # "Stopped"
         /\ playback_position >= Len(playback_samples)]_vars

(***************************************************************************)
(* C27: whenever is_recording is true an input stream is open, whatever    *)
(* the order of Tick, FinalizeRecording, Toggle, StartRecording and        *)
(* StopRecording.                                                          *)
(***************************************************************************)
C27_RecordingHasStream == is_recording => IsSome(input_stream)

(***************************************************************************)
(* C28: a finalize that writes its file never overwrites a recording: the  *)
(* name recording_<N+1>.wav, N the number of files listed, is the name of  *)
(* no file in the working directory.                                       *)
(***************************************************************************)
FinalizeWrites ==
    /\ pending_finalize' < pending_finalize
    /\ fs_op'.op = "write"
    /\ fs_op'.ok

C28_NoOverwrite == [][FinalizeWrites => fs_op'.name \notin disk]_vars

(***************************************************************************)
(* C29: the playback cursor never exceeds the length of the playback       *)
(* buffer: 0 <= playback_position <= Len(playback_samples) in every state, *)
(* between the statements of a handler and when a callback is entered      *)
(* included.                                                               *)
(***************************************************************************)
C29_CursorWithinBuffer ==
    /\ playback_position >= 0
    /\ playback_position <= Len(playback_samples)

\* an output callback holds both guards, about to copy, with the cursor at the end
C29_Witness ==
    /\ sync.output = "copy"
    /\ playback_samples # <<>>
    /\ playback_position = Len(playback_samples)
====
